---- MODULE Spec2Model ----
(***************************************************************************)
(* Model of the jeff-pfp-generator backend: one endpoint, POST             *)
(* /api/generate, behind an in-memory per-IP daily rate limiter.           *)
(*                                                                         *)
(* Two variants of the server exist in the repository:                     *)
(*   "sdk"  : src/index.js          (replicate.run, MAX_DAILY = 50)        *)
(*   "poll" : src/unnamed/part_000  (manual fetch + poll loop, MAX = 10)   *)
(* Lines 1-57 and 59-74 of the two files are the same apart from the       *)
(* constant on line 31.                                                    *)
(*                                                                         *)
(* JavaScript runs each callback to completion: the rate limiter, the      *)
(* synchronous head of the route handler (up to its first await) and each  *)
(* continuation after an await are one atomic action each.                 *)
(***************************************************************************)
EXTENDS Integers, Sequences, FiniteSets, TLC

\* ------------------------------------------------------------------ bounds
\* UTC days the clock can show: 1..MaxDay.
MaxDay == 2
\* Requests a client may send on one day beyond its daily maximum.
MaxOver == 1
\* Request slots that can be in flight at once.
MaxInFlight == 2

\* ------------------------------------------------------- program constants
MAX_DAILY_GENERATIONS_SDK == 50
MAX_DAILY_GENERATIONS_POLL == 10

Variants == {"sdk", "poll"}

\* ------------------------------------------------------------- JS values
\* Values that are undefined or a string (header, address, prompt, message,
\* details) are strings, Undefined standing for the value undefined.
Undefined == "<undefined>"

\* Truthiness of such a value, as used by `!prompt`, `a || b`.
Truthy(x) == x # Undefined /\ x # ""

\* Values that may be an array (a generation's output, the result sent):
\* undefined, a string or an array of strings.
NoValue == [t |-> "undef", v |-> <<>>]
JStr(s) == [t |-> "str", v |-> <<s>>]
JArr(items) == [t |-> "arr", v |-> items]

\* ------------------------------------------------------------ input sets
\* x-forwarded-for header values (one string each; the two chains start with
\* the same address) and socket addresses.
Headers == {Undefined, "1.1.1.1", "1.1.1.1, 9.9.9.9"}
Remotes == {"1.1.1.1"}
\* req.body.prompt
Prompts == {Undefined, "", "a hat"}
\* State of jeff-original.png on disk when the handler looks at it.
ImageStates == {"present", "missing", "unreadable"}
\* Messages of errors thrown or rejected by the runtime and the network
\* (an Error may carry an empty message).
ErrorMessages == {"boom", ""}
\* Status codes the job-creation call can answer with, and error bodies.
CreateStatuses == {201, 402, 503}
ErrorBodies == {"<body>"}
\* Outputs a generation can carry.
Outputs == {NoValue, JStr("url3"), JArr(<<"url1", "url2">>), JArr(<<>>)}

\* A prediction (job) as parsed from an upstream JSON body.  status "" is a
\* body without a status field; hasUrls tells whether it has urls.get.
Prediction(st, out, err, urls) ==
    [status |-> st, output |-> out, error |-> err, hasUrls |-> urls]
NoPrediction == Prediction("unset", NoValue, Undefined, FALSE)
Predictions ==
    {Prediction("starting", NoValue, Undefined, TRUE),
     Prediction("processing", JArr(<<"partial">>), Undefined, TRUE),
     Prediction("", NoValue, Undefined, FALSE),
     Prediction("failed", JArr(<<"junk">>), "nsfw", TRUE),
     Prediction("canceled", NoValue, Undefined, TRUE)}
    \cup {Prediction("succeeded", o, Undefined, TRUE) : o \in Outputs}

\* ------------------------------------------------------------------ state
VARIABLES
    variant,       \* which of the two server files is running
    today,         \* the UTC day new Date().toISOString().split('T')[0] gives
    rateLimitMap,  \* Map: client key -> [date, count]
    req,           \* request slot -> the request it holds (none: not in DOMAIN)
    seen           \* history: requests each key has sent on the current day

vars == <<variant, today, rateLimitMap, req, seen>>

Slots == 1..MaxInFlight
Keys == (Headers \cup Remotes) \ {Undefined}

MAX_DAILY_GENERATIONS ==
    IF variant = "sdk" THEN MAX_DAILY_GENERATIONS_SDK
                       ELSE MAX_DAILY_GENERATIONS_POLL

\* ------------------------------------------------------------- responses
NoResponse == [status |-> 0, error |-> "", details |-> Undefined, result |-> NoValue]
Response(st, err, det, result) ==
    [status |-> st, error |-> err, details |-> det, result |-> result]

\* userRecord when rateLimitMap.get(ip) finds nothing.
NoRecord == [date |-> 0, count |-> 0]

\* A request as it arrives.  prompt is req.body.prompt, upstream is
\* response.status of the creation call, prediction and output are the
\* handler's locals.  The other fields are history:
\*   image           what the handler found on disk ("unchecked": it did not
\*                   look);
\*   ip, userRecord  the key the rate limiter computed and the record it
\*                   found (before touching it), kept while the request is
\*                   waiting on an await and dropped with the response;
\*   entered         next() ran the route handler;
\*   creates         job-creation calls / SDK runs issued;
\*   polled          a status poll was issued;
\*   sent            responses sent.
NewRequest(prompt) ==
    [pc |-> "new", prompt |-> prompt, upstream |-> 0,
     prediction |-> NoPrediction, output |-> NoValue, res |-> NoResponse,
     image |-> "unchecked", ip |-> Undefined, userRecord |-> NoRecord,
     entered |-> FALSE, creates |-> 0, polled |-> FALSE, sent |-> 0]

\* res.status(st).json(body): the request is answered.
Send(slot, response) ==
    [slot EXCEPT !.pc = "done", !.res = response, !.sent = @ + 1,
                 !.ip = Undefined, !.userRecord = NoRecord]

\* ------------------------------------------------------------ rateLimiter
\* const ip = req.headers['x-forwarded-for'] || req.socket.remoteAddress
ClientKey(header, remote) == IF Truthy(header) THEN header ELSE remote

\* rateLimitMap.get(ip)
MapGet(map, ip) == IF ip \in DOMAIN map THEN map[ip] ELSE NoRecord

\* Mutant of MapSet: the map is rebuilt with the one record.
MapSetDropsOthers(map, ip, record) == [k \in {ip} |-> record]

\* rateLimitMap.set(ip, record)
MapSet(map, ip, record) ==
    [k \in DOMAIN map \cup {ip} |-> IF k = ip THEN record ELSE map[k]]

\* Mutant of rateLimiter: `>` for `>=`.
rateLimiterOffByOne(map, ip, day, max) ==
    LET userRecord == MapGet(map, ip) IN
    IF userRecord # NoRecord /\ userRecord.date = day
    THEN IF userRecord.count > max
         THEN [allow |-> FALSE, map |-> map]
         ELSE [allow |-> TRUE, map |-> [map EXCEPT ![ip].count = @ + 1]]
    ELSE [allow |-> TRUE, map |-> MapSet(map, ip, [date |-> day, count |-> 1])]

\* Mutant of rateLimiter: count++ runs before the test, so refusals count too.
rateLimiterCountsRefusals(map, ip, day, max) ==
    LET userRecord == MapGet(map, ip) IN
    IF userRecord # NoRecord /\ userRecord.date = day
    THEN [allow |-> userRecord.count < max,
          map |-> [map EXCEPT ![ip].count = @ + 1]]
    ELSE [allow |-> TRUE, map |-> MapSet(map, ip, [date |-> day, count |-> 1])]

\* Mutant of rateLimiter: `if (userRecord)` without the date test.
rateLimiterIgnoresDate(map, ip, day, max) ==
    LET userRecord == MapGet(map, ip) IN
    IF userRecord # NoRecord
    THEN IF userRecord.count >= max
         THEN [allow |-> FALSE, map |-> map]
         ELSE [allow |-> TRUE, map |-> [map EXCEPT ![ip].count = @ + 1]]
    ELSE [allow |-> TRUE, map |-> MapSet(map, ip, [date |-> day, count |-> 1])]

\* Mutant of rateLimiter: the request is let through without `count++`.
rateLimiterNoIncrement(map, ip, day, max) ==
    LET userRecord == MapGet(map, ip) IN
    IF userRecord # NoRecord /\ userRecord.date = day
    THEN IF userRecord.count >= max
         THEN [allow |-> FALSE, map |-> map]
         ELSE [allow |-> TRUE, map |-> map]
    ELSE [allow |-> TRUE, map |-> MapSet(map, ip, [date |-> day, count |-> 1])]

\* The rate limiter's decision and the map it leaves, for one call.
rateLimiter(map, ip, day, max) ==
    LET userRecord == MapGet(map, ip) IN
    IF userRecord # NoRecord /\ userRecord.date = day
    THEN IF userRecord.count >= max
         THEN [allow |-> FALSE, map |-> map]
         ELSE [allow |-> TRUE, map |-> [map EXCEPT ![ip].count = @ + 1]]
    ELSE [allow |-> TRUE, map |-> MapSet(map, ip, [date |-> day, count |-> 1])]

TooManyRequests ==
    Response(429, "Daily limit reached. Please come back tomorrow!", Undefined, NoValue)

\* ---------------------------------------------------------- route handler
\* Mutant of Catch: the error is thrown again, so the handler ends without a
\* response.
CatchRethrows(slot, v, message) == [slot EXCEPT !.pc = "crashed"]

\* catch (error): 500 with details error.message || error (index.js) or
\* error.message (part_000).
Catch(slot, v, message) ==
    Send(slot, Response(500, "Failed to generate image",
                        IF v = "sdk" /\ ~Truthy(message) THEN "<Error>" ELSE message,
                        NoValue))

\* Mutant of ResultUrl: the last element of an array, not the first.
ResultUrlLast(output) ==
    IF output.t = "arr"
    THEN IF Len(output.v) >= 1 THEN JStr(output.v[Len(output.v)]) ELSE NoValue
    ELSE output

\* Array.isArray(output) ? output[0] : output
ResultUrl(output) ==
    IF output.t = "arr"
    THEN IF Len(output.v) >= 1 THEN JStr(output.v[1]) ELSE NoValue
    ELSE output

\* Mutant of HandlerHead: `prompt === undefined` for `!prompt`.
HandlerHeadUndefinedOnly(slot, v, image) ==
    LET h == [slot EXCEPT !.entered = TRUE]
        looked == [h EXCEPT !.image = image]
    IN
    IF h.prompt = Undefined
    THEN Send(h, Response(400, "Prompt is required", Undefined, NoValue))
    ELSE IF image = "missing"
    THEN Send(looked, Response(500, "Reference image missing on server", Undefined, NoValue))
    ELSE IF image = "unreadable"
    THEN Catch(looked, v, "EACCES")
    ELSE [looked EXCEPT !.pc = IF v = "sdk" THEN "run" ELSE "create", !.creates = @ + 1]

\* Mutant of HandlerHead: no fs.existsSync test, so reading a missing file
\* throws into the catch clause.
HandlerHeadNoExistsTest(slot, v, image) ==
    LET h == [slot EXCEPT !.entered = TRUE]
        looked == [h EXCEPT !.image = image]
    IN
    IF ~Truthy(h.prompt)
    THEN Send(h, Response(400, "Prompt is required", Undefined, NoValue))
    ELSE IF image = "missing"
    THEN Catch(looked, v, "ENOENT")
    ELSE IF image = "unreadable"
    THEN Catch(looked, v, "EACCES")
    ELSE [looked EXCEPT !.pc = IF v = "sdk" THEN "run" ELSE "create", !.creates = @ + 1]

\* Mutant of HandlerHead: the image file is looked at before the prompt is
\* tested.
HandlerHeadImageFirst(slot, v, image) ==
    LET h == [slot EXCEPT !.entered = TRUE]
        looked == [h EXCEPT !.image = image]
    IN
    IF image = "missing"
    THEN Send(looked, Response(500, "Reference image missing on server", Undefined, NoValue))
    ELSE IF ~Truthy(h.prompt)
    THEN Send(looked, Response(400, "Prompt is required", Undefined, NoValue))
    ELSE IF image = "unreadable"
    THEN Catch(looked, v, "EACCES")
    ELSE [looked EXCEPT !.pc = IF v = "sdk" THEN "run" ELSE "create", !.creates = @ + 1]

\* The handler from its entry to its first await.
HandlerHead(slot, v, image) ==
    LET h == [slot EXCEPT !.entered = TRUE]
        looked == [h EXCEPT !.image = image]
    IN
    IF ~Truthy(h.prompt)
    THEN Send(h, Response(400, "Prompt is required", Undefined, NoValue))
    ELSE IF image = "missing"
    THEN Send(looked, Response(500, "Reference image missing on server", Undefined, NoValue))
    ELSE IF image = "unreadable"
    THEN Catch(looked, v, "EACCES")
    ELSE [looked EXCEPT !.pc = IF v = "sdk" THEN "run" ELSE "create", !.creates = @ + 1]

\* Slot s can take a new request: it holds none, or an answered one.
Free(s) == IF s \in DOMAIN req THEN req[s].pc = "done" ELSE TRUE

\* req' for slot s now holding r.
Hold(s, r) == [t \in DOMAIN req \cup {s} |-> IF t = s THEN r ELSE req[t]]

\* Mutant of Request: the 429 is sent without `return`, so next() runs too.
RequestWithoutReturn(s, header, remote, prompt, image) ==
    LET ip == ClientKey(header, remote)
        gate == rateLimiter(rateLimitMap, ip, today, MAX_DAILY_GENERATIONS)
        r == [NewRequest(prompt) EXCEPT !.ip = ip,
                                        !.userRecord = MapGet(rateLimitMap, ip)]
    IN  /\ Free(s)
        /\ seen[ip] < MAX_DAILY_GENERATIONS + MaxOver
        /\ seen' = [seen EXCEPT ![ip] = @ + 1]
        /\ rateLimitMap' = gate.map
        /\ req' = Hold(s, IF gate.allow
                          THEN HandlerHead(r, variant, image)
                          ELSE HandlerHead(Send(r, TooManyRequests), variant, image))
        /\ UNCHANGED <<variant, today>>

\* A request arrives on a free slot: the rate limiter runs and, when it calls
\* next(), the handler runs up to its first await.
Request(s, header, remote, prompt, image) ==
    LET ip == ClientKey(header, remote)
        gate == rateLimiter(rateLimitMap, ip, today, MAX_DAILY_GENERATIONS)
        r == NewRequest(prompt)
    IN  /\ Free(s)
        /\ seen[ip] < MAX_DAILY_GENERATIONS + MaxOver
        /\ seen' = [seen EXCEPT ![ip] = @ + 1]
        /\ rateLimitMap' = gate.map
        /\ req' = Hold(s, IF gate.allow
                          THEN HandlerHead([r EXCEPT
                                               !.ip = ip,
                                               !.userRecord = MapGet(rateLimitMap, ip)],
                                           variant, image)
                          ELSE Send(r, TooManyRequests))
        /\ UNCHANGED <<variant, today>>

\* Slot s holds a request that is at pc.
At(s, pc) == s \in DOMAIN req /\ req[s].pc = pc

\* Mutant of RunResult: the output is sent as it came, an array included.
RunResultRaw(slot, output) ==
    Send([slot EXCEPT !.output = output], Response(200, "", Undefined, output))

\* index.js: the response for the output that replicate.run returned.
RunResult(slot, output) ==
    Send([slot EXCEPT !.output = output],
         Response(200, "", Undefined, ResultUrl(output)))

\* index.js: await replicate.run(...) returns output.
RunReturns(s, output) ==
    /\ At(s, "run")
    /\ req' = [req EXCEPT ![s] = RunResult(@, output)]
    /\ UNCHANGED <<variant, today, rateLimitMap, seen>>

\* response.ok
Ok(status) == status >= 200 /\ status <= 299

\* part_000: the job-creation fetch resolves with a response of this status;
\* whether it is ok or not, response.json() is awaited next.
CreateResponds(s, status) ==
    /\ At(s, "create")
    /\ req' = [req EXCEPT ![s] =
                 [@ EXCEPT !.upstream = status,
                           !.pc = IF Ok(status) THEN "createJson" ELSE "errorJson"]]
    /\ UNCHANGED <<variant, today, rateLimitMap, seen>>

\* Mutant of ErrorJson: res.status(500) for res.status(response.status).
ErrorJsonAlways500(s, body) ==
    /\ At(s, "errorJson")
    /\ req' = [req EXCEPT ![s] =
                 Send(@, Response(500, "Failed to generate image", body, NoValue))]
    /\ UNCHANGED <<variant, today, rateLimitMap, seen>>

\* part_000: the response for a non-ok creation response whose body parsed.
UpstreamError(slot, body) ==
    Send(slot, Response(slot.upstream, "Failed to generate image", body, NoValue))

\* part_000: the body of a non-ok creation response is parsed; the upstream
\* status and body are passed on.
ErrorJson(s, body) ==
    /\ At(s, "errorJson")
    /\ req' = [req EXCEPT ![s] = UpstreamError(@, body)]
    /\ UNCHANGED <<variant, today, rateLimitMap, seen>>

\* Mutant of Terminal: the while test without `!== "canceled"`.
TerminalNoCanceled(status) == status \in {"succeeded", "failed"}

\* The while test of part_000, negated: the loop is over at these statuses.
Terminal(status) == status \in {"succeeded", "failed", "canceled"}

\* Mutant of AfterPrediction: only "failed" is taken for a failure.
AfterPredictionFailedOnly(slot, p) ==
    LET h == [slot EXCEPT !.prediction = p] IN
    IF ~Terminal(p.status)
    THEN [h EXCEPT !.pc = "wait"]
    ELSE IF p.status = "failed"
    THEN Send(h, Response(500, "Prediction failed", p.error, NoValue))
    ELSE Send([h EXCEPT !.output = p.output],
              Response(200, "", Undefined, ResultUrl(p.output)))

\* Mutant of AfterPrediction: "Prediction failed" is sent without `return`,
\* so the result is sent after it.
AfterPredictionNoReturn(slot, p) ==
    LET h == [slot EXCEPT !.prediction = p] IN
    IF ~Terminal(p.status)
    THEN [h EXCEPT !.pc = "wait"]
    ELSE IF p.status # "succeeded"
    THEN Send([Send(h, Response(500, "Prediction failed", p.error, NoValue))
                  EXCEPT !.output = p.output],
              Response(200, "", Undefined, ResultUrl(p.output)))
    ELSE Send([h EXCEPT !.output = p.output],
              Response(200, "", Undefined, ResultUrl(p.output)))

\* part_000: `prediction = p`, then the while test and, when the loop is
\* over, the code after it up to the response.
AfterPrediction(slot, p) ==
    LET h == [slot EXCEPT !.prediction = p] IN
    IF ~Terminal(p.status)
    THEN [h EXCEPT !.pc = "wait"]
    ELSE IF p.status # "succeeded"
    THEN Send(h, Response(500, "Prediction failed", p.error, NoValue))
    ELSE Send([h EXCEPT !.output = p.output],
              Response(200, "", Undefined, ResultUrl(p.output)))

\* part_000: the body of an ok creation response is parsed into prediction.
CreateJson(s, p) ==
    /\ At(s, "createJson")
    /\ req' = [req EXCEPT ![s] = AfterPrediction(@, p)]
    /\ UNCHANGED <<variant, today, rateLimitMap, seen>>

\* part_000: the 1 s timer fires and fetch(prediction.urls.get) is called;
\* reading .get of a missing urls throws a TypeError.
TimerFires(s) ==
    /\ At(s, "wait")
    /\ req' = [req EXCEPT ![s] =
                 IF @.prediction.hasUrls
                 THEN [@ EXCEPT !.pc = "poll", !.polled = TRUE]
                 ELSE Catch(@, variant, "Cannot read properties of undefined")]
    /\ UNCHANGED <<variant, today, rateLimitMap, seen>>

\* part_000: the status fetch resolves (its status code is not looked at).
PollResponds(s) ==
    /\ At(s, "poll")
    /\ req' = [req EXCEPT ![s].pc = "pollJson"]
    /\ UNCHANGED <<variant, today, rateLimitMap, seen>>

\* part_000: the body of the status response is parsed into prediction.
PollJson(s, p) ==
    /\ At(s, "pollJson")
    /\ req' = [req EXCEPT ![s] = AfterPrediction(@, p)]
    /\ UNCHANGED <<variant, today, rateLimitMap, seen>>

\* Mutant of Throws: a first rejection starts the upstream call again.
ThrowsRetries(s, message) ==
    /\ s \in DOMAIN req
    /\ req[s].pc \in {"run", "create", "errorJson", "createJson", "poll", "pollJson"}
    /\ req' = [req EXCEPT ![s] =
                 IF @.creates < 2
                 THEN [@ EXCEPT !.pc = IF variant = "sdk" THEN "run" ELSE "create",
                                !.creates = @ + 1]
                 ELSE Catch(@, variant, message)]
    /\ UNCHANGED <<variant, today, rateLimitMap, seen>>

\* Mutant of Throws: the catch clause gives the request's quota unit back.
ThrowsRefunds(s, message) ==
    /\ s \in DOMAIN req
    /\ req[s].pc \in {"run", "create", "errorJson", "createJson", "poll", "pollJson"}
    /\ req' = [req EXCEPT ![s] = Catch(@, variant, message)]
    /\ rateLimitMap' = [rateLimitMap EXCEPT ![req[s].ip].count = @ - 1]
    /\ UNCHANGED <<variant, today, seen>>

\* An awaited promise (SDK run, a fetch, a body parse) rejects: the catch
\* clause answers.
Throws(s, message) ==
    /\ s \in DOMAIN req
    /\ req[s].pc \in {"run", "create", "errorJson", "createJson", "poll", "pollJson"}
    /\ req' = [req EXCEPT ![s] = Catch(@, variant, message)]
    /\ UNCHANGED <<variant, today, rateLimitMap, seen>>

\* The UTC day changes.
Midnight ==
    /\ today < MaxDay
    /\ today' = today + 1
    /\ seen' = [k \in Keys |-> 0]
    /\ UNCHANGED <<variant, rateLimitMap, req>>

EmptyMap == [k \in {} |-> NoRecord]
NoRequests == [s \in {} |-> NewRequest(Undefined)]

Init ==
    /\ variant \in Variants
    /\ today = 1
    /\ rateLimitMap = EmptyMap
    /\ req = NoRequests
    /\ seen = [k \in Keys |-> 0]

\* The requests that can arrive: header, socket address, prompt and the state
\* of the image file.  The file is looked at only for a request that has a
\* prompt, so for the others one state of the file stands for all.
Arrivals ==
    {a \in Headers \X Remotes \X Prompts \X ImageStates :
        Truthy(a[3]) \/ a[4] = "present"}

\* Everything one request slot can do.
Serve(s) ==
    \/ \E a \in Arrivals : Request(s, a[1], a[2], a[3], a[4])
    \/ \E output \in Outputs : RunReturns(s, output)
    \/ \E status \in CreateStatuses : CreateResponds(s, status)
    \/ \E body \in ErrorBodies : ErrorJson(s, body)
    \/ \E p \in Predictions : CreateJson(s, p)
    \/ TimerFires(s)
    \/ PollResponds(s)
    \/ \E p \in Predictions : PollJson(s, p)
    \/ \E message \in ErrorMessages : Throws(s, message)

\* Clients that send their next request after the previous one was answered.
Next == Midnight \/ Serve(1)

Spec == Init /\ [][Next]_vars


\* The continuations of the request in slot s: every step but its arrival.
Steps(s) ==
    \/ \E output \in Outputs : RunReturns(s, output)
    \/ \E status \in CreateStatuses : CreateResponds(s, status)
    \/ \E body \in ErrorBodies : ErrorJson(s, body)
    \/ \E p \in Predictions : CreateJson(s, p)
    \/ TimerFires(s)
    \/ PollResponds(s)
    \/ \E p \in Predictions : PollJson(s, p)
    \/ \E message \in ErrorMessages : Throws(s, message)

\* The statuses at which the upstream is done with a job.
UpstreamTerminal == {"succeeded", "failed", "canceled"}

\* The upstream reports a terminal status to a poll, or a call fails.
Settles(s) ==
    \/ \E p \in Predictions : p.status \in UpstreamTerminal /\ PollJson(s, p)
    \/ \E message \in ErrorMessages : Throws(s, message)

\* The requests of one client without a forwarded-for header.
DirectArrivals == {a \in Arrivals : a[1] = Undefined}

\* One client's requests, one after the other, within a day.
NextFair ==
    \/ \E a \in DirectArrivals : Request(1, a[1], a[2], a[3], a[4])
    \/ Steps(1)

\* The event loop runs every continuation whose promise or timer has settled,
\* and every pending call settles.
Scheduled == \A s \in Slots : WF_vars(Steps(s))

\* The upstream does not answer with non-terminal statuses for ever.
UpstreamSettles == \A s \in Slots : SF_vars(Settles(s))

SpecFair == Init /\ [][NextFair]_vars /\ Scheduled /\ UpstreamSettles

\* The same scheduling with an upstream that may never settle.
SpecScheduled == Init /\ [][NextFair]_vars /\ Scheduled

\* The one key of the requests without a forwarded-for header.
DirectKey == CHOOSE k \in Remotes : TRUE

\* The state after a client without a forwarded-for header has sent, one after
\* the other, all but MaxInFlight of its day's requests, none with a prompt:
\* each was let through and answered 400.
InitBusy ==
    /\ variant \in Variants
    /\ today = 1
    /\ rateLimitMap = MapSet(EmptyMap, DirectKey,
                             [date |-> 1, count |-> MAX_DAILY_GENERATIONS - MaxInFlight])
    /\ req = [s \in {1} |-> HandlerHead(NewRequest(Undefined), variant, "present")]
    /\ seen = [k \in Keys |-> IF k = DirectKey
                              THEN MAX_DAILY_GENERATIONS - MaxInFlight ELSE 0]

\* That client's requests with a prompt, the image in place.
BusyArrivals == {a \in DirectArrivals : Truthy(a[3]) /\ a[4] = "present"}

\* Requests in flight together, interleaved at their awaits: any free slot
\* takes the next request, any pending request takes its next step.
NextConcurrent ==
    \E s \in Slots :
        \/ \E a \in BusyArrivals : Request(s, a[1], a[2], a[3], a[4])
        \/ Steps(s)

SpecConcurrent == InitBusy /\ [][NextConcurrent]_vars

\* ------------------------------------------------------------------ claims
InFlight == {"run", "create", "errorJson", "createJson", "wait", "poll", "pollJson"}

\* This step is a request of key k: only Request raises seen[k].
Arrived(k) == today' = today /\ seen'[k] = seen[k] + 1

\* The slot a request step acted on: the one that changed, or, when the new
\* request left its slot reading as before, one of the answered slots.
Actor ==
    IF req' # req
    THEN {s \in DOMAIN req' : s \notin DOMAIN req \/ req'[s] # req[s]}
    ELSE {s \in DOMAIN req : req[s].pc = "done"}

\* The request slot s holds was refused by the rate limiter.
Refused(slot) ==
    /\ slot.pc = "done"
    /\ slot.res = TooManyRequests
    /\ ~slot.entered

\* The request slot s holds was let through to the route handler.
Admitted(slot) == slot.entered /\ slot.res.status # 429

\* C1: counting a key's requests since its day began with no record for that
\* day, requests 1..max are let through by the rate limiter and request max+1
\* is answered 429; a request let through with a prompt and a readable image
\* goes on to the upstream call, and is answered 200 when that succeeds.
C1_DailyQuota ==
    [][/\ \A k \in Keys : Arrived(k) =>
            /\ seen'[k] <= MAX_DAILY_GENERATIONS
                  => \E s \in Actor :
                        /\ Admitted(req'[s])
                        /\ (Truthy(req'[s].prompt) /\ req'[s].image = "present")
                              => req'[s].pc \in {"run", "create"}
            /\ seen'[k] = MAX_DAILY_GENERATIONS + 1
                  => \E s \in Actor : Refused(req'[s])
       /\ \A s \in DOMAIN req :
            /\ \A o \in Outputs : RunReturns(s, o) => req'[s].res.status = 200
            /\ \A p \in Predictions :
                  (p.status = "succeeded" /\ (CreateJson(s, p) \/ PollJson(s, p)))
                     => req'[s].res.status = 200
      ]_vars

\* A key's request number max+1 of the day has just been answered 429 (the
\* other keys are within their quota, so the 429 is this key's).
C1_Witness ==
    \E k \in Keys :
        /\ seen[k] = MAX_DAILY_GENERATIONS + 1
        /\ \A j \in Keys \ {k} : seen[j] <= MAX_DAILY_GENERATIONS
        /\ \E s \in DOMAIN req : Refused(req[s])

\* C2: every record of the quota map has 1 <= count <= MAX_DAILY_GENERATIONS.
C2_CountInRange ==
    \A k \in DOMAIN rateLimitMap :
        /\ rateLimitMap[k].count >= 1
        /\ rateLimitMap[k].count <= MAX_DAILY_GENERATIONS

\* A key at its maximum has been refused, and the count stayed at the maximum.
C2_Witness ==
    \E k \in DOMAIN rateLimitMap :
        /\ rateLimitMap[k] = [date |-> today, count |-> MAX_DAILY_GENERATIONS]
        /\ seen[k] > MAX_DAILY_GENERATIONS

\* C3: a request whose key has a record of another day is let through
\* whatever that record's count, and leaves the record {date: today, count: 1}.
C3_StaleReset ==
    [][\A k \in Keys :
          (/\ Arrived(k)
           /\ k \in DOMAIN rateLimitMap
           /\ rateLimitMap[k].date # today)
          => /\ \E s \in Actor : Admitted(req'[s])
             /\ rateLimitMap'[k] = [date |-> today, count |-> 1]
      ]_vars

\* A request found yesterday's record at the maximum, was let through and the
\* record now reads count 1 for today.
C3_Witness ==
    \E s \in DOMAIN req :
        /\ req[s].pc \in InFlight
        /\ req[s].userRecord.count = MAX_DAILY_GENERATIONS
        /\ req[s].userRecord.date # today
        /\ rateLimitMap[req[s].ip] = [date |-> today, count |-> 1]

\* The map without the record of ip.
Others(map, ip) == [k \in DOMAIN map \ {ip} |-> map[k]]

\* C4: a request of key A, let through or refused, leaves the records of all
\* other keys as they were; whether it is let through is decided by the count
\* of A's own requests of the day alone.
C4_IndependentKeys ==
    [][\A k \in Keys : Arrived(k) =>
          /\ Others(rateLimitMap', k) = Others(rateLimitMap, k)
          /\ \E s \in Actor :
                Admitted(req'[s]) <=> seen'[k] <= MAX_DAILY_GENERATIONS
      ]_vars

\* A request of one key is under way while another key holds a record of
\* today with a higher count.
C4_Witness ==
    \E s \in DOMAIN req : \E k \in DOMAIN rateLimitMap :
        /\ req[s].pc \in InFlight
        /\ k # req[s].ip
        /\ rateLimitMap[k].date = today
        /\ rateLimitMap[k].count > rateLimitMap[req[s].ip].count
        /\ rateLimitMap[req[s].ip].count > 1

\* A refused request never got into the route handler: no image check, no
\* outbound call.
NeverHandled(slot) ==
    slot.res.status = 429 =>
        /\ ~slot.entered
        /\ slot.image = "unchecked"
        /\ slot.creates = 0
        /\ ~slot.polled

\* C5: a request that finds a record of today with count >= max is answered
\* 429, changes nothing in the quota map, and never enters the route handler:
\* no prompt check, no image load, no outbound call.
C5_DenyShortCircuits ==
    [][/\ \A k \in Keys :
            (/\ Arrived(k)
             /\ k \in DOMAIN rateLimitMap
             /\ rateLimitMap[k].date = today
             /\ rateLimitMap[k].count >= MAX_DAILY_GENERATIONS)
            => /\ rateLimitMap' = rateLimitMap
               /\ \E s \in Actor : Refused(req'[s])
       /\ \A s \in DOMAIN req' : NeverHandled(req'[s])
      ]_vars

\* A refused request: 429 sent, handler not entered, nothing called.
C5_Witness ==
    \E s \in DOMAIN req : \E k \in DOMAIN rateLimitMap :
        /\ Refused(req[s])
        /\ req[s].creates = 0
        /\ rateLimitMap[k] = [date |-> today, count |-> MAX_DAILY_GENERATIONS]
        /\ seen[k] = MAX_DAILY_GENERATIONS + 1
        /\ \A j \in Keys \ {k} : seen[j] <= MAX_DAILY_GENERATIONS

\* C6 as stated: whatever the quota state of the client, a request whose
\* prompt is missing or empty is answered 400.
C6_Original ==
    \A s \in DOMAIN req : ~Truthy(req[s].prompt) => req[s].res.status = 400

\* C6 amended: a request whose prompt is missing or empty is answered 400
\* "Prompt is required" when the rate limiter lets it through (its key has no
\* record of today, or one with count < max), and 429 when the key's record
\* of today has count >= max.
C6_PromptRequired ==
    [][\A k \in Keys : Arrived(k) =>
          \E s \in Actor :
              ~Truthy(req'[s].prompt) =>
                  /\ req'[s].pc = "done"
                  /\ req'[s].res =
                        IF /\ MapGet(rateLimitMap, k).date = today
                           /\ MapGet(rateLimitMap, k).count >= MAX_DAILY_GENERATIONS
                        THEN TooManyRequests
                        ELSE Response(400, "Prompt is required", Undefined, NoValue)
      ]_vars

\* The only client has used its whole quota, the last unit on a request with
\* an empty prompt, answered 400.
C6_Witness ==
    \E s \in DOMAIN req : \E k \in Keys :
        /\ req[s].prompt = ""
        /\ req[s].res.status = 400
        /\ DOMAIN rateLimitMap = {k}
        /\ rateLimitMap[k] = [date |-> today, count |-> MAX_DAILY_GENERATIONS]
        /\ seen[k] = MAX_DAILY_GENERATIONS

\* C7: a request that passed the rate limiter with a non-empty prompt and
\* finds no reference image is answered 500 "Reference image missing on
\* server", and no outbound call (job creation, SDK run, poll) is made for it.
C7_MissingImage ==
    \A s \in DOMAIN req :
        req[s].image = "missing" =>
            /\ req[s].entered
            /\ Truthy(req[s].prompt)
            /\ req[s].pc = "done"
            /\ req[s].res = Response(500, "Reference image missing on server",
                                     Undefined, NoValue)
            /\ req[s].creates = 0
            /\ ~req[s].polled

\* A request with a prompt that found the image missing and was answered 500.
C7_Witness ==
    \E s \in DOMAIN req :
        /\ req[s].image = "missing"
        /\ req[s].prompt = "a hat"
        /\ req[s].res.status = 500
        /\ req[s].sent = 1

\* What C8 says the result is: the first element of an array of length >= 1,
\* the output itself when it is no array.
C8_Expected(output, result) ==
    /\ (output.t = "arr" /\ Len(output.v) >= 1) => result = JStr(output.v[1])
    /\ output.t # "arr" => result = output

\* C8: when replicate.run returns (index.js), or a creation or poll response
\* carries status succeeded (part_000), the response is 200 with the first
\* element of that output (a sequence of length >= 1) or the output itself (a
\* scalar); the output of an earlier, non-terminal poll response is never sent.
C8_SuccessResult ==
    [][/\ \A s \in DOMAIN req :
            /\ \A o \in Outputs : RunReturns(s, o) =>
                  /\ req'[s].res.status = 200
                  /\ C8_Expected(o, req'[s].res.result)
            /\ \A p \in Predictions :
                  (p.status = "succeeded" /\ (CreateJson(s, p) \/ PollJson(s, p))) =>
                      /\ req'[s].pc = "done"
                      /\ req'[s].res.status = 200
                      /\ C8_Expected(p.output, req'[s].res.result)
       /\ \A s \in DOMAIN req' :
            /\ req'[s].res.result # JStr("partial")
            /\ req'[s].res.result # JArr(<<"partial">>)
            /\ req'[s].res.status = 200 =>
                  (variant = "poll" => req'[s].prediction.status = "succeeded")
      ]_vars

\* A polled job ended succeeded with ["url1", "url2"] and "url1" was sent.
C8_Witness ==
    \E s \in DOMAIN req :
        /\ req[s].polled
        /\ req[s].prediction.status = "succeeded"
        /\ req[s].output = JArr(<<"url1", "url2">>)
        /\ req[s].res.status = 200
        /\ req[s].res.result = JStr("url1")

\* C9: in part_000, when a creation or poll response carries status failed or
\* canceled, the response is 500 "Prediction failed" with that job's error as
\* details, and carries no result.
C9_FailedJob ==
    [][/\ \A s \in DOMAIN req : \A p \in Predictions :
            (p.status \in {"failed", "canceled"}
                /\ (CreateJson(s, p) \/ PollJson(s, p))) =>
                /\ req'[s].pc = "done"
                /\ req'[s].res = Response(500, "Prediction failed", p.error, NoValue)
       /\ \A s \in DOMAIN req' :
            req'[s].prediction.status \in {"failed", "canceled"} =>
                /\ req'[s].pc = "done"
                /\ req'[s].res.status = 500
                /\ req'[s].res.result = NoValue
      ]_vars

\* A polled job ended failed and its error was sent as details of a 500.
C9_Witness ==
    \E s \in DOMAIN req :
        /\ req[s].polled
        /\ req[s].prediction.status = "failed"
        /\ req[s].res = Response(500, "Prediction failed", "nsfw", NoValue)

\* C10 as stated: once the creation call has answered with a non-success
\* status, the request is answered with that status and the upstream body as
\* details, and is never polled.
C10_Original ==
    \A s \in DOMAIN req :
        (req[s].upstream # 0 /\ ~Ok(req[s].upstream) /\ req[s].pc = "done") =>
            /\ req[s].res.status = req[s].upstream
            /\ req[s].res.details \in ErrorBodies
            /\ ~req[s].polled

\* C10 amended: when the creation call answers with a non-success status and
\* its body parses as JSON, the response carries that status and the body as
\* details; when reading or parsing the body fails, the response is 500 with
\* the error's message; in both cases no status poll is issued.
C10_UpstreamError ==
    [][/\ \A s \in DOMAIN req : \A body \in ErrorBodies :
            ErrorJson(s, body) =>
                /\ ~Ok(req[s].upstream)
                /\ req'[s].res = Response(req[s].upstream, "Failed to generate image",
                                          body, NoValue)
       /\ \A s \in DOMAIN req' :
            (req'[s].upstream # 0 /\ ~Ok(req'[s].upstream)) =>
                /\ ~req'[s].polled
                /\ req'[s].prediction = NoPrediction
                /\ req'[s].pc \in {"errorJson", "done"}
                /\ req'[s].pc = "done" =>
                      \/ req'[s].res.status = req'[s].upstream
                      \/ /\ req'[s].res.status = 500
                         /\ req'[s].res.details \in ErrorMessages
      ]_vars

\* The creation call answered 402 and the response carries 402 and the body.
C10_Witness ==
    \E s \in DOMAIN req :
        /\ req[s].upstream = 402
        /\ req[s].res = Response(402, "Failed to generate image", "<body>", NoValue)
        /\ ~req[s].polled

\* The slot holds a request answered once with an error status and a JSON
\* body that has an error field.
ErrorAnswered(slot) ==
    /\ slot.pc = "done"
    /\ slot.sent = 1
    /\ slot.res.status >= 400
    /\ slot.res.status <= 599
    /\ slot.res.error # ""
    /\ slot.res.result = NoValue

\* C11: every failure after the handler is entered (an unreadable image, a
\* rejected SDK run, fetch or body parse, a poll response without a status
\* URL) is answered at once with an error status and a JSON body with an error
\* field; no request is left at a failed step without its response.
C11_FailuresAnswered ==
    [][/\ \A s \in DOMAIN req :
            /\ \A m \in ErrorMessages : Throws(s, m) => ErrorAnswered(req'[s])
            /\ (TimerFires(s) /\ ~req[s].prediction.hasUrls) => ErrorAnswered(req'[s])
       /\ \A s \in DOMAIN req' :
            /\ req'[s].image = "unreadable" => ErrorAnswered(req'[s])
            /\ req'[s].pc \in InFlight \cup {"done"}
      ]_vars

\* A poll response had no status URL, and the TypeError of reading it was
\* answered by the catch clause.
C11_Witness ==
    \E s \in DOMAIN req :
        /\ req[s].pc = "done"
        /\ ~req[s].prediction.hasUrls
        /\ req[s].res = Response(500, "Failed to generate image",
                                 "Cannot read properties of undefined", NoValue)

\* The awaits at which an upstream call is pending.
C12_Calling == {"run", "create", "poll"}

\* C12: a request makes at most one job-creation call (one SDK run), and once
\* an upstream call has failed (a rejected promise, a non-success creation
\* status, a job failed or canceled) it makes no other call: the failure step
\* issues none, and an answered request takes no step at all.
C12_NoRetry ==
    [][/\ \A s \in DOMAIN req' : req'[s].creates <= 1
       /\ \A s \in DOMAIN req :
            /\ (\E m \in ErrorMessages : Throws(s, m)) =>
                  /\ req'[s].pc = "done"
                  /\ req'[s].creates = req[s].creates
                  /\ req'[s].polled = req[s].polled
            /\ (\E st \in CreateStatuses : ~Ok(st) /\ CreateResponds(s, st)) =>
                  /\ req'[s].pc \notin C12_Calling
                  /\ req'[s].creates = req[s].creates
                  /\ req'[s].polled = req[s].polled
            /\ (\E p \in Predictions :
                    /\ p.status \in {"failed", "canceled"}
                    /\ CreateJson(s, p) \/ PollJson(s, p)) =>
                  /\ req'[s].pc = "done"
                  /\ req'[s].creates = req[s].creates
                  /\ req'[s].polled = req[s].polled
            /\ (req[s].pc \in {"errorJson", "done"} /\ req'[s] # req[s]) =>
                  \/ req'[s].pc = "done" /\ req[s].pc = "errorJson"
                  \/ \E k \in Keys : Arrived(k)
      ]_vars

\* A status poll was rejected after the one creation call, and the request
\* was answered.
C12_Witness ==
    \E s \in DOMAIN req :
        /\ req[s].pc = "done"
        /\ req[s].creates = 1
        /\ req[s].polled
        /\ req[s].prediction.status = "processing"
        /\ req[s].res.error = "Failed to generate image"
        /\ req[s].res.details = "boom"

\* The first address of a forwarded-for chain "a, b, ...": on the headers of
\* Headers, what header.split(',')[0].trim() would give.
C13_FirstAddress(header) ==
    IF header = "1.1.1.1, 9.9.9.9" THEN "1.1.1.1" ELSE header

\* C13 as stated: the key of every quota record is the first address of a
\* forwarded-for header or a connection address, so no two records stand for
\* one first address.
C13_FirstAddressKey ==
    /\ \A k \in DOMAIN rateLimitMap :
          k \in {C13_FirstAddress(h) : h \in Headers \ {Undefined}} \cup Remotes
    /\ \A j, k \in DOMAIN rateLimitMap :
          C13_FirstAddress(j) = C13_FirstAddress(k) => j = k

\* The positions that may follow a position of the handler: Submitted (run,
\* create, errorJson, createJson), Polling (wait, poll, pollJson), and the
\* final response (done).
C14_After(pc) ==
    CASE pc = "run" -> {"done"}
      [] pc = "create" -> {"createJson", "errorJson", "done"}
      [] pc = "errorJson" -> {"done"}
      [] pc = "createJson" -> {"wait", "done"}
      [] pc = "wait" -> {"poll", "done"}
      [] pc = "poll" -> {"pollJson", "done"}
      [] pc = "pollJson" -> {"wait", "done"}
      [] OTHER -> {}

\* What a request's record shows of the stages it went through: each stage
\* was reached only after the earlier ones succeeded.
C14_Ordered(slot, v) ==
    /\ slot.entered <=> ~(slot.pc = "done" /\ slot.res = TooManyRequests)
    /\ slot.image # "unchecked" <=> (slot.entered /\ Truthy(slot.prompt))
    /\ slot.creates = 1 <=> slot.image = "present"
    /\ slot.creates \in {0, 1}
    /\ slot.pc \in InFlight => slot.creates = 1
    /\ slot.upstream # 0 => (slot.creates = 1 /\ v = "poll")
    /\ slot.prediction # NoPrediction => Ok(slot.upstream)
    /\ slot.polled => slot.prediction # NoPrediction
    /\ slot.pc \in {"wait", "poll", "pollJson"} => slot.prediction # NoPrediction
    /\ v = "sdk" => slot.pc \in {"run", "done"}
    /\ (slot.pc = "done" /\ slot.res.status = 200) =>
          /\ slot.creates = 1
          /\ v = "poll" => slot.prediction.status = "succeeded"

\* C14: a request goes through Received, Quota-checked, Validated,
\* ImageLoaded, Submitted, Polling (any number of rounds) and a final response
\* in that order; a stage is reached only when the earlier ones succeeded, a
\* stage that fails goes to the final response, and an answered request takes
\* no further step.
C14_StageOrder ==
    [][/\ \A s \in DOMAIN req' : C14_Ordered(req'[s], variant')
       /\ \A s \in DOMAIN req :
            req'[s] # req[s] =>
                \/ req'[s].pc \in C14_After(req[s].pc)
                \/ /\ req[s].pc = "done"
                   /\ \E k \in Keys : Arrived(k)
                   /\ req'[s].pc \in {"run", "create", "done"}
                   /\ req'[s].prediction = NoPrediction
                   /\ req'[s].upstream = 0
                   /\ ~req'[s].polled
      ]_vars

\* A request is in the Polling stage for a second round.
C14_Witness ==
    \E s \in DOMAIN req :
        /\ req[s].pc = "wait"
        /\ req[s].polled
        /\ req[s].prediction.status = "starting"

\* Two responses have the same status and the same result.
C15_Same(a, b) == a.status = b.status /\ a.result = b.result

\* The other variant.
C15_Other(v) == IF v = "sdk" THEN "poll" ELSE "sdk"

\* The job of a creation or status response that succeeded with this output.
C15_Succeeded(output) == Prediction("succeeded", output, Undefined, TRUE)

\* The two variants answer alike a request that ends before the upstream call
\* (no prompt, image missing or unreadable) and an upstream success: what this
\* step sent is what the other variant's code sends for the same case.
C15_AlikeOnSuccess ==
    /\ \A k \in Keys : Arrived(k) =>
          \A s \in Actor :
              (req'[s].entered /\ req'[s].pc = "done") =>
                  C15_Same(req'[s].res,
                           HandlerHead(NewRequest(req'[s].prompt), C15_Other(variant),
                                       req'[s].image).res)
    /\ \A s \in DOMAIN req :
          /\ \A o \in Outputs : RunReturns(s, o) =>
                C15_Same(req'[s].res, AfterPrediction(req[s], C15_Succeeded(o)).res)
          /\ \A p \in Predictions :
                (p.status = "succeeded" /\ (CreateJson(s, p) \/ PollJson(s, p))) =>
                    C15_Same(req'[s].res, RunResult(req[s], p.output).res)

\* The two variants answer alike a job that failed or was canceled: part_000
\* sends "Prediction failed", index.js the catch clause's response when the
\* SDK run rejects.
C15_AlikeOnFailedJob ==
    \A s \in DOMAIN req :
        /\ \A m \in ErrorMessages :
              (variant = "sdk" /\ Throws(s, m)) =>
                  \A p \in Predictions :
                      p.status \in {"failed", "canceled"} =>
                          C15_Same(req'[s].res, AfterPrediction(req[s], p).res)
        /\ \A p \in Predictions :
              (p.status \in {"failed", "canceled"}
                  /\ (CreateJson(s, p) \/ PollJson(s, p))) =>
                  \A m \in ErrorMessages :
                      C15_Same(req'[s].res, Catch(req[s], "sdk", m).res)

C16_TerminalStatuses == {"succeeded", "failed", "canceled"}

\* The request is in the poll loop: waiting, or at one of the poll's awaits.
C16_InLoop(slot) == slot.pc \in {"wait", "poll", "pollJson"}

\* C16: the poll loop goes on exactly while the last status read is none of
\* succeeded, failed, canceled: a poll is issued only from the wait and only
\* while that status is not terminal, none is issued once a terminal status
\* was read (none at all when the creation response carried one), and neither
\* a result nor "Prediction failed" is sent while the last status is not
\* terminal.
C16_PollLoop ==
    [][/\ \A s \in DOMAIN req' :
            /\ C16_InLoop(req'[s]) =>
                  /\ req'[s].prediction # NoPrediction
                  /\ req'[s].prediction.status \notin C16_TerminalStatuses
            /\ req'[s].prediction.status \in C16_TerminalStatuses =>
                  req'[s].pc = "done"
            /\ (/\ req'[s].pc = "done"
                /\ variant = "poll"
                /\ req'[s].prediction.status \notin C16_TerminalStatuses) =>
                  /\ req'[s].res.status # 200
                  /\ req'[s].res.error # "Prediction failed"
                  /\ req'[s].res.result = NoValue
       /\ \A s \in DOMAIN req :
            /\ (req'[s].pc = "poll" /\ req[s].pc # "poll") =>
                  /\ req[s].pc = "wait"
                  /\ req[s].prediction.status \notin C16_TerminalStatuses
                  /\ req'[s].prediction = req[s].prediction
            /\ (req'[s].polled /\ ~req[s].polled) => req'[s].pc = "poll"
            /\ \A p \in Predictions :
                  /\ (CreateJson(s, p) /\ p.status \in C16_TerminalStatuses) =>
                        (req'[s].pc = "done" /\ ~req'[s].polled)
                  /\ ((CreateJson(s, p) \/ PollJson(s, p))
                         /\ p.status \notin C16_TerminalStatuses) =>
                        req'[s].pc = "wait"
      ]_vars

\* A poll read the status processing, and the request waits for the next one.
C16_Witness ==
    \E s \in DOMAIN req :
        /\ req[s].pc = "wait"
        /\ req[s].polled
        /\ req[s].prediction.status = "processing"

\* A request let through the gate is still without its response.
C17_Pending(s) == s \in DOMAIN req /\ req[s].pc \in InFlight

\* The request slot s holds has its response.
C17_Answered(s) == s \in DOMAIN req /\ req[s].pc = "done"

\* C17: when continuations are scheduled fairly and the upstream in the end
\* reports a terminal status or a call fails, every request let through the
\* gate gets its response; and a request leaves the poll loop only on a
\* terminal status or a failed call, so one whose job never reaches a terminal
\* status and whose calls never fail is never answered.
C17_Termination ==
    /\ \A s \in Slots : C17_Pending(s) ~> C17_Answered(s)
    /\ [][\A s \in DOMAIN req :
            (C16_InLoop(req[s]) /\ req'[s].pc = "done") =>
                \/ /\ req[s].pc = "pollJson"
                   /\ req'[s].prediction.status \in UpstreamTerminal
                \/ req'[s].res.error = "Failed to generate image"
         ]_vars

\* With fair scheduling alone every pending request gets its response: the
\* property that the unbounded loop refutes.
C17_AlwaysAnswered == \A s \in Slots : C17_Pending(s) ~> C17_Answered(s)

\* A request that was polled got its response after the job succeeded.
C17_Witness ==
    \E s \in DOMAIN req :
        /\ req[s].pc = "done"
        /\ req[s].polled
        /\ req[s].prediction.status = "succeeded"
        /\ req[s].res.status = 200
        /\ req[s].sent = 1

\* The smaller of two numbers.
C18_Min(a, b) == IF a <= b THEN a ELSE b

\* C18: with requests in flight together and interleaved at their awaits, a
\* key's record counts that day's requests up to max, each request let through
\* having raised it by one from a count no other request in flight found, and
\* no step but an arrival touches the map: no update is lost and no more than
\* max requests are let through.
C18_AtomicQuota ==
    [][/\ \A k \in Keys :
            /\ seen'[k] > 0 =>
                  /\ k \in DOMAIN rateLimitMap'
                  /\ rateLimitMap'[k].date = today'
                  /\ rateLimitMap'[k].count = C18_Min(seen'[k], MAX_DAILY_GENERATIONS)
            /\ Arrived(k) =>
                  \E s \in Actor :
                      IF seen[k] < MAX_DAILY_GENERATIONS
                      THEN /\ Admitted(req'[s])
                           /\ rateLimitMap'[k].count = MapGet(rateLimitMap, k).count + 1
                      ELSE /\ Refused(req'[s])
                           /\ rateLimitMap' = rateLimitMap
       /\ (\A k \in Keys : ~Arrived(k)) => rateLimitMap' = rateLimitMap
       /\ \A s, t \in DOMAIN req' :
            (/\ s # t
             /\ req'[s].pc \in InFlight
             /\ req'[t].pc \in InFlight
             /\ req'[s].ip = req'[t].ip) =>
                req'[s].userRecord # req'[t].userRecord
      ]_vars

\* Every slot holds a request waiting on the upstream, the last of them took
\* the key's count to max, and the next one would be refused.
C18_Witness ==
    /\ DOMAIN req = Slots
    /\ \A s \in Slots : req[s].pc \in InFlight
    /\ rateLimitMap[DirectKey].count = MAX_DAILY_GENERATIONS
    /\ \E s \in Slots : req[s].userRecord.count = MAX_DAILY_GENERATIONS - 1
    /\ \E s \in Slots : req[s].pc \in {"run", "wait"}

\* C19: a request is answered at most once, and on every path that ends
\* (429, 400, image missing, creation refused, job failed, success, caught
\* error) exactly once: the step that ends it sends one response, and an
\* answered request sends nothing more.
C19_OneResponse ==
    [][/\ \A s \in DOMAIN req' :
            /\ req'[s].sent \in {0, 1}
            /\ req'[s].pc = "done" <=> req'[s].sent = 1
            /\ req'[s].pc = "done" <=> req'[s].res # NoResponse
            /\ req'[s].pc = "done" => req'[s].res.status \in 200..599
       /\ \A s \in DOMAIN req :
            /\ (req[s].pc \in InFlight /\ req'[s].pc = "done") =>
                  req'[s].sent = req[s].sent + 1
            /\ (req[s].pc = "done" /\ req'[s] # req[s]) => \E k \in Keys : Arrived(k)
       /\ \A k \in Keys : Arrived(k) =>
            \E s \in Actor : req'[s].pc = "done" => req'[s].sent = 1
      ]_vars

\* A refused job creation was answered once, with the upstream's 503.
C19_Witness ==
    \E s \in DOMAIN req :
        /\ req[s].pc = "done"
        /\ req[s].upstream = 503
        /\ req[s].res.status = 503
        /\ req[s].sent = 1

\* C20: the quota is used up at the gate and never given back: a request let
\* through raises its key's count by one, or sets it to 1, whatever becomes of
\* it; no later step of a request changes the map, no count of a day goes down
\* and no record is deleted; so once max requests of a key were let through,
\* whatever their outcome, the key's next request that day is answered 429.
C20_NeverRefunded ==
    [][/\ \A k \in DOMAIN rateLimitMap :
            /\ k \in DOMAIN rateLimitMap'
            /\ rateLimitMap'[k].date >= rateLimitMap[k].date
            /\ rateLimitMap'[k].date = rateLimitMap[k].date =>
                  rateLimitMap'[k].count >= rateLimitMap[k].count
       /\ \A s \in DOMAIN req :
            (req[s].pc \in InFlight /\ req'[s] # req[s]) =>
                rateLimitMap' = rateLimitMap
       /\ \A k \in Keys : Arrived(k) =>
            \E s \in Actor :
                /\ Admitted(req'[s]) =>
                      rateLimitMap'[k] =
                          [date |-> today,
                           count |-> IF MapGet(rateLimitMap, k).date = today
                                     THEN rateLimitMap[k].count + 1 ELSE 1]
                /\ (/\ MapGet(rateLimitMap, k).date = today
                    /\ rateLimitMap[k].count = MAX_DAILY_GENERATIONS) =>
                      Refused(req'[s])
      ]_vars

\* A key's request number max of the day ended in "Prediction failed", and
\* the key's count stays at max.
C20_Witness ==
    \E k \in Keys :
        /\ seen[k] = MAX_DAILY_GENERATIONS
        /\ \A j \in Keys \ {k} : seen[j] = 0
        /\ rateLimitMap[k] = [date |-> today, count |-> MAX_DAILY_GENERATIONS]
        /\ \E s \in DOMAIN req : req[s].res.error = "Prediction failed"

====
